---- MODULE Spec2Model ----
(***************************************************************************)
(* The Istanbul consensus backend adapter (consensus/istanbul/backend):    *)
(* engine selection between the legacy (ibft) and the current (qbft)       *)
(* round-engine, the live switchover, the commit pipeline, gossip with     *)
(* duplicate suppression, signing, and proposal verification.              *)
(***************************************************************************)
EXTENDS Integers, Sequences, FiniteSets, TLC

\* ------------------------------------------------------------------ bounds
\* Highest block height of the model (chain head and headers).
MaxHeight == 3
\* The non-zero fork height a configuration may carry (config.QbftBlock).
ForkHeight == 2

\* Number of distinct blocks (block hashes 1..NumBlocks; 0 is the zero hash).
NumBlocks == 2
\* Number of remote validators (addresses 1..NumPeers; 0 is the node itself).
NumPeers == 2
\* Number of distinct gossip payloads.
NumPayloads == 2
\* Gossip and Broadcast calls, and network deliveries, in one behaviour.
MaxGossipCalls == 2
MaxDeliveries == 2

\* Number of distinct data values given to Sign and CheckSignature.
NumData == 4

\* Number of connections (ServerCodec values) handed to the RPC server.
NumCodecs == 2
\* Calls of Server.Stop in one behaviour.
MaxStops == 2

\* Capacity of the rendezvous channel: commitCh = make(chan *types.Block, 1).
CommitChCap == 1

\* qbftBlockNumber's value for "QbftBlock is not defined in genesis".
QbftBlockUndefined == -1

Heights == 0..MaxHeight
QbftBlockOpts == {QbftBlockUndefined, 0, ForkHeight}

\* A *types.Header argument: nil, or a header with a Number.
NilHeader == [isNil |-> TRUE, Number |-> 0]
Header(n) == [isNil |-> FALSE, Number |-> n]
HeaderOpts == {NilHeader} \cup {Header(n) : n \in Heights}

VARIABLES
    qbftBlock,             \* sb.config.QbftBlock (QbftBlockUndefined when nil)
    chain,                 \* sb.chain: "nil" or "attached"
    currentHeader,         \* height of sb.chain.CurrentHeader()
    qbftConsensusEnabled,  \* sb.qbftConsensusEnabled, the override flag
    core,                  \* sb.core: [kind, state] of the installed round-engine
    coreStarted,           \* sb.coreStarted
    coreMu,                \* sb.coreMu: "free" or the holder
    policy,                \* comparator of sb.config.ProposerPolicy
    sqPc,                  \* position of a running StartQBFTConsensus
    sqErr,                 \* what the last StartQBFTConsensus returned
    query,                 \* the last selector query and its answer
    hasBadBlock,           \* sb.hasBadBlock: nil, or the hashes it marks bad
    broadcaster,           \* sb.broadcaster # nil
    proposedBlockHash,     \* sb.proposedBlockHash (0: the zero hash)
    commitCh,              \* sb.commitCh, the blocks buffered in it
    sealPc,                \* the local seal attempt: "idle" or "waiting"
    enqueued,              \* blocks handed to broadcaster.Enqueue
    commit,                \* per caller, its Commit call
    verify,                \* the last Verify call and its result
    knownMessages,         \* sb.knownMessages: hashes this node has seen
    recentMessages,        \* sb.recentMessages: per peer, its registered cache
    caches,                \* the per-peer caches allocated so far
    gossip,                \* per caller, its Gossip or Broadcast call
    sentCount,             \* per address and payload, the sends dispatched
    wire,                  \* the sends dispatched: peer, function, code, payload
    injected,              \* per payload, the posts made by Broadcast
    forwarded,             \* per payload, the posts made by the receive path
    gossipLog,             \* what has happened so far, for the properties
    sigCheck,              \* the last signature made and checked
    accessor,              \* the last accessor call and what it returned
    pending,               \* peer sends dispatched and not yet completed
    rpc,                   \* the rpc.Server: run, codecs, isMultitenant, Stop
    codec,                 \* per ServerCodec: open or closed, and its ServeCodec
    secCtx                 \* the last authenticateHttpRequest and its context

engineVars == <<qbftBlock, chain, currentHeader, qbftConsensusEnabled, core,
                coreStarted, coreMu, policy, sqPc, sqErr, hasBadBlock>>
commitVars == <<proposedBlockHash, commitCh, sealPc, enqueued, commit>>
gossipVars == <<knownMessages, recentMessages, caches, gossip, sentCount,
                wire, injected, forwarded, gossipLog>>
rpcVars == <<rpc, codec, secCtx>>
vars == <<engineVars, query, broadcaster, commitVars, verify, gossipVars,
          sigCheck, accessor, pending, rpcVars>>

rest == <<broadcaster, commitVars, verify, gossipVars, sigCheck, accessor,
         pending, rpcVars>>

Blocks == 1..NumBlocks
\* The callers of Commit: the two racing calls of the commit race.
Committers == {1, 2}

\* The header of the block with hash h: two blocks per height.
NumberOf(h) == (h + 1) \div 2
ParentOf(h) == IF h <= 2 THEN 0 ELSE h - 2

\* An istanbul.Proposal: a *types.Block, or a value of another type.
NotABlock == [isBlock |-> FALSE, hash |-> 0]
Block(h) == [isBlock |-> TRUE, hash |-> h]
Proposals == {NotABlock} \cup {Block(h) : h \in Blocks}

\* The values of sb.hasBadBlock.
NoPredicate == [isNil |-> TRUE, bad |-> {}]
Predicate(S) == [isNil |-> FALSE, bad |-> S]
PredicateOpts == {NoPredicate, Predicate({}), Predicate({1})}

\* ------------------------------------------------------- engine selection

IsQBFTConsensusForHeader(header) ==
    IF qbftBlock = QbftBlockUndefined THEN FALSE
    ELSE IF qbftBlock = 0 THEN TRUE
    ELSE chain # "nil" /\ header.Number >= qbftBlock

\* A mutant of IsQBFTConsensus: the override flag is not consulted.
IsQBFTConsensus_RuleOnly ==
    IF chain # "nil" THEN IsQBFTConsensusForHeader(Header(currentHeader))
    ELSE FALSE

IsQBFTConsensus ==
    IF qbftConsensusEnabled THEN TRUE
    ELSE IF chain # "nil" THEN IsQBFTConsensusForHeader(Header(currentHeader))
    ELSE FALSE

EngineForHeader(header) ==
    CASE header.isNil /\ IsQBFTConsensus -> "qbft"
      [] ~header.isNil /\ IsQBFTConsensusForHeader(header) -> "qbft"
      [] OTHER -> "ibft"

Engine == EngineForHeader(NilHeader)

\* A selector query by any caller; no lock is taken.
Query(header) ==
    /\ query' = [asked |-> TRUE, header |-> header,
                 engine |-> EngineForHeader(header),
                 enabled |-> qbftConsensusEnabled,
                 chain |-> chain, head |-> currentHeader]
    /\ UNCHANGED <<engineVars, broadcaster, commitVars, verify, gossipVars,
                   sigCheck, accessor, pending, rpcVars>>

\* ------------------------------------------------------ engine start/stop

NoCore == [kind |-> "none", state |-> "new"]

\* What IsQBFTConsensus answers for a head at height n once the chain is
\* attached and the flag is unset.
ForkReached(n) ==
    /\ qbftBlock # QbftBlockUndefined
    /\ (qbftBlock = 0 \/ n >= qbftBlock)

\* Backend.Start: attaches the chain and starts the engine the rule selects.
Start(ok, pred) ==
    /\ coreMu = "free"
    /\ sqPc \in {"idle", "stopped"}
    /\ IF coreStarted
       THEN UNCHANGED <<chain, core, coreStarted, policy, hasBadBlock>>
       ELSE /\ chain' = "attached"
            /\ hasBadBlock' = pred
            /\ LET qbft == qbftConsensusEnabled \/ ForkReached(currentHeader)
               IN /\ core' = [kind |-> IF qbft THEN "qbft" ELSE "ibft",
                              state |-> IF ok THEN "running" ELSE "new"]
                  /\ policy' = IF qbft THEN "byByte" ELSE policy
            /\ coreStarted' = ok
    /\ UNCHANGED <<qbftBlock, currentHeader, qbftConsensusEnabled, coreMu,
                   sqPc, sqErr, query, rest>>

\* The effect of Backend.Stop on the engine fields, run under coreMu.
StopEffect(ok) ==
    IF ~coreStarted
    THEN UNCHANGED <<core, coreStarted>>
    ELSE IF ok
         THEN /\ core' = [core EXCEPT !.state = "stopped"]
              /\ coreStarted' = FALSE
         ELSE UNCHANGED <<core, coreStarted>>

StopFails(ok) == coreStarted /\ ~ok

Stop(ok) ==
    /\ coreMu = "free"
    /\ sqPc \in {"idle", "stopped"}
    /\ StopEffect(ok)
    /\ UNCHANGED <<qbftBlock, chain, currentHeader, qbftConsensusEnabled,
                   coreMu, policy, sqPc, sqErr, query, hasBadBlock, rest>>

\* The chain head advances by one block.
NewHead ==
    /\ currentHeader < MaxHeight
    /\ currentHeader' = currentHeader + 1
    /\ UNCHANGED <<qbftBlock, chain, qbftConsensusEnabled, core, coreStarted,
                   coreMu, policy, sqPc, sqErr, query, hasBadBlock, rest>>

\* ------------------------------------------------------------- switchover
\* StartQBFTConsensus, one action per step a concurrent reader can observe.

\* sb.Stop() returns; on error StartQBFTConsensus returns it.
SQ_Stop(ok) ==
    /\ sqPc = "idle"
    /\ coreMu = "free"
    /\ StopEffect(ok)
    /\ IF StopFails(ok)
       THEN /\ sqPc' = "idle"
            /\ sqErr' = "stop"
       ELSE /\ sqPc' = "stopped"
            /\ sqErr' = "running"
    /\ UNCHANGED <<qbftBlock, chain, currentHeader, qbftConsensusEnabled,
                   coreMu, policy, query, hasBadBlock, rest>>

\* A mutant of SQ_Install: the flag is raised when the engine is installed.
SQ_Install_FlagFirst ==
    /\ sqPc = "stopped"
    /\ coreMu = "free"
    /\ coreMu' = "sq"
    /\ core' = [kind |-> "qbft", state |-> "new"]
    /\ qbftConsensusEnabled' = TRUE
    /\ sqPc' = "installed"
    /\ UNCHANGED <<qbftBlock, chain, currentHeader, coreStarted, policy,
                   sqErr, query, hasBadBlock, rest>>

\* sb.coreMu.Lock(); sb.core = qbftcore.New(sb, sb.config)
SQ_Install ==
    /\ sqPc = "stopped"
    /\ coreMu = "free"
    /\ coreMu' = "sq"
    /\ core' = [kind |-> "qbft", state |-> "new"]
    /\ sqPc' = "installed"
    /\ UNCHANGED <<qbftBlock, chain, currentHeader, qbftConsensusEnabled,
                   coreStarted, policy, sqErr, query, hasBadBlock, rest>>

\* ProposerPolicy.Use(ValidatorSortByByteFunc); sb.core.Start()
SQ_StartCore(ok) ==
    /\ sqPc = "installed"
    /\ policy' = "byByte"
    /\ IF ok
       THEN /\ core' = [core EXCEPT !.state = "running"]
            /\ sqPc' = "started"
            /\ UNCHANGED <<coreMu, sqErr>>
       ELSE /\ sqPc' = "idle"
            /\ sqErr' = "start"
            /\ coreMu' = "free"
            /\ UNCHANGED core
    /\ UNCHANGED <<qbftBlock, chain, currentHeader, qbftConsensusEnabled,
                   coreStarted, query, hasBadBlock, rest>>

\* sb.coreStarted = true
SQ_MarkStarted ==
    /\ sqPc = "started"
    /\ coreStarted' = TRUE
    /\ sqPc' = "marked"
    /\ UNCHANGED <<qbftBlock, chain, currentHeader, qbftConsensusEnabled,
                   core, coreMu, policy, sqErr, query, hasBadBlock, rest>>

\* sb.qbftConsensusEnabled = true; return nil (the deferred Unlock runs)
SQ_Enable ==
    /\ sqPc = "marked"
    /\ qbftConsensusEnabled' = TRUE
    /\ coreMu' = "free"
    /\ sqPc' = "idle"
    /\ sqErr' = "nil"
    /\ UNCHANGED <<qbftBlock, chain, currentHeader, core, coreStarted,
                   policy, query, hasBadBlock, rest>>

\* ------------------------------------------------------------ attachments

\* The protocol handler attaches the broadcaster (SetBroadcaster).
SetBroadcaster ==
    /\ ~broadcaster
    /\ broadcaster' = TRUE
    /\ UNCHANGED <<engineVars, query, commitVars, verify, gossipVars,
                   sigCheck, accessor, pending, rpcVars>>

\* ----------------------------------------------------------------- Verify

NoVerify == [called |-> FALSE, proposal |-> NotABlock, pred |-> NoPredicate,
             snapErr |-> "nil", engineRes |-> <<0, "nil">>,
             ret |-> <<0, "nil">>, snapshotAsked |-> <<>>,
             engineAsked |-> "none"]

HasBadProposal(hash) ==
    IF hasBadBlock.isNil THEN FALSE ELSE hash \in hasBadBlock.bad

\* What sb.snapshot and the engine's VerifyBlockProposal may answer.
SnapshotErrs == {"nil", "ErrUnknownAncestor"}
EngineVerifyResults ==
    {<<0, "nil">>, <<0, "ErrInvalidBlock">>, <<1, "ErrFutureBlock">>}

\* A mutant of VerifyOutcome: the snapshot is computed before the bad-block
\* check.
VerifyOutcome_SnapshotFirst(proposal, snapErr, engineRes) ==
    IF ~proposal.isBlock
    THEN [ret |-> <<0, "ErrInvalidProposal">>, snapshotAsked |-> <<>>,
          engineAsked |-> "none"]
    ELSE LET key == <<NumberOf(proposal.hash) - 1, ParentOf(proposal.hash)>>
         IN IF snapErr # "nil"
            THEN [ret |-> <<0, snapErr>>, snapshotAsked |-> key,
                  engineAsked |-> "none"]
            ELSE IF HasBadProposal(proposal.hash)
            THEN [ret |-> <<0, "ErrBlacklistedHash">>, snapshotAsked |-> key,
                  engineAsked |-> "none"]
            ELSE [ret |-> engineRes, snapshotAsked |-> key,
                  engineAsked |-> Engine]

\* Verify's return value, the snapshot it asked for and the engine it
\* consulted, given what the collaborators answer when asked.
VerifyOutcome(proposal, snapErr, engineRes) ==
    IF ~proposal.isBlock
    THEN [ret |-> <<0, "ErrInvalidProposal">>, snapshotAsked |-> <<>>,
          engineAsked |-> "none"]
    ELSE IF HasBadProposal(proposal.hash)
    THEN [ret |-> <<0, "ErrBlacklistedHash">>, snapshotAsked |-> <<>>,
          engineAsked |-> "none"]
    ELSE LET key == <<NumberOf(proposal.hash) - 1, ParentOf(proposal.hash)>>
         IN IF snapErr # "nil"
            THEN [ret |-> <<0, snapErr>>, snapshotAsked |-> key,
                  engineAsked |-> "none"]
            ELSE [ret |-> engineRes, snapshotAsked |-> key,
                  engineAsked |-> Engine]

\* Verify is called by the round-engine, which runs once the chain is
\* attached.
Verify(proposal, snapErr, engineRes) ==
    /\ chain = "attached"
    /\ LET out == VerifyOutcome(proposal, snapErr, engineRes)
       IN verify' = [called |-> TRUE, proposal |-> proposal,
                     pred |-> hasBadBlock, snapErr |-> snapErr,
                     engineRes |-> engineRes, ret |-> out.ret,
                     snapshotAsked |-> out.snapshotAsked,
                     engineAsked |-> out.engineAsked]
    /\ UNCHANGED <<engineVars, query, broadcaster, commitVars, gossipVars,
                   sigCheck, accessor, pending, rpcVars>>

\* ----------------------------------------------------------------- Commit

NoCommit == [pc |-> "idle", proposal |-> NotABlock, engine |-> "none",
             cleared |-> 0, seen |-> 0, path |-> "none", put |-> FALSE,
             enq |-> FALSE, bc |-> FALSE, ret |-> "none"]

\* A mutant of Commit_Begin: the registry is cleared before CommitHeader.
Commit_Begin_ClearFirst(c, proposal, headerOk) ==
    /\ commit[c].pc \in {"idle", "done"}
    /\ commit' = [commit EXCEPT ![c] =
         IF ~proposal.isBlock
         THEN [NoCommit EXCEPT !.pc = "done", !.proposal = proposal,
                               !.ret = "ErrInvalidProposal"]
         ELSE IF ~headerOk
         THEN [NoCommit EXCEPT !.pc = "done", !.proposal = proposal,
                               !.engine = Engine, !.cleared = 1,
                               !.ret = "ErrCommitHeader"]
         ELSE [NoCommit EXCEPT !.pc = "compare", !.proposal = proposal,
                               !.engine = Engine, !.cleared = 1]]
    /\ UNCHANGED <<engineVars, query, broadcaster, proposedBlockHash,
                   commitCh, sealPc, enqueued, verify, gossipVars,
                   sigCheck, accessor, pending, rpcVars>>

\* Lines 211-228: the type check, CommitHeader by the active engine,
\* ClearRegistry and WithSeal.
Commit_Begin(c, proposal, headerOk) ==
    /\ commit[c].pc \in {"idle", "done"}
    /\ commit' = [commit EXCEPT ![c] =
         IF ~proposal.isBlock
         THEN [NoCommit EXCEPT !.pc = "done", !.proposal = proposal,
                               !.ret = "ErrInvalidProposal"]
         ELSE IF ~headerOk
         THEN [NoCommit EXCEPT !.pc = "done", !.proposal = proposal,
                               !.engine = Engine,
                               !.ret = "ErrCommitHeader"]
         ELSE [NoCommit EXCEPT !.pc = "compare", !.proposal = proposal,
                               !.engine = Engine, !.cleared = 1]]
    /\ UNCHANGED <<engineVars, query, broadcaster, proposedBlockHash,
                   commitCh, sealPc, enqueued, verify, gossipVars,
                   sigCheck, accessor, pending, rpcVars>>

\* A mutant of Commit_Compare: the local-seal branch does not return, and
\* falls through to the import.
Commit_Compare_FallThrough(c) ==
    /\ commit[c].pc = "compare"
    /\ LET local == proposedBlockHash = commit[c].proposal.hash
       IN /\ commit' = [commit EXCEPT
                ![c].seen = proposedBlockHash,
                ![c].bc = broadcaster,
                ![c].path = IF local THEN "local" ELSE "foreign",
                ![c].enq = broadcaster,
                ![c].pc = IF local THEN "send" ELSE "done",
                ![c].ret = IF local THEN "none" ELSE "nil"]
          /\ enqueued' = IF broadcaster
                         THEN enqueued \cup {commit[c].proposal.hash}
                         ELSE enqueued
    /\ UNCHANGED <<engineVars, query, broadcaster, proposedBlockHash,
                   commitCh, sealPc, verify, gossipVars,
                   sigCheck, accessor, pending, rpcVars>>

\* Line 236, and lines 242-246 on the foreign-commit path.
Commit_Compare(c) ==
    /\ commit[c].pc = "compare"
    /\ IF proposedBlockHash = commit[c].proposal.hash
       THEN /\ commit' = [commit EXCEPT ![c].seen = proposedBlockHash,
                                        ![c].bc = broadcaster,
                                        ![c].path = "local",
                                        ![c].pc = "send"]
            /\ UNCHANGED enqueued
       ELSE /\ commit' = [commit EXCEPT ![c].seen = proposedBlockHash,
                                        ![c].bc = broadcaster,
                                        ![c].path = "foreign",
                                        ![c].enq = broadcaster,
                                        ![c].pc = "done",
                                        ![c].ret = "nil"]
            /\ enqueued' = IF broadcaster
                           THEN enqueued \cup {commit[c].proposal.hash}
                           ELSE enqueued
    /\ UNCHANGED <<engineVars, query, broadcaster, proposedBlockHash,
                   commitCh, sealPc, verify, gossipVars,
                   sigCheck, accessor, pending, rpcVars>>

\* Line 238: sb.commitCh <- block, which waits while the buffer is full.
Commit_Send(c) ==
    /\ commit[c].pc = "send"
    /\ Len(commitCh) < CommitChCap
    /\ commitCh' = Append(commitCh, commit[c].proposal.hash)
    /\ commit' = [commit EXCEPT ![c].put = TRUE, ![c].pc = "done",
                                ![c].ret = "nil"]
    /\ UNCHANGED <<engineVars, query, broadcaster, proposedBlockHash,
                   sealPc, enqueued, verify, gossipVars,
                   sigCheck, accessor, pending, rpcVars>>

\* ------------------------------------------------------------- local seal
\* The sealing caller: it sets PendingProposal before sealing begins, then
\* receives from the rendezvous channel or abandons it.

SealBegin(h) ==
    /\ sealPc = "idle"
    /\ proposedBlockHash' = h
    /\ sealPc' = "waiting"
    /\ UNCHANGED <<engineVars, query, broadcaster, commitCh, enqueued,
                   commit, verify, gossipVars, sigCheck, accessor, pending,
                   rpcVars>>

SealReceive ==
    /\ sealPc = "waiting"
    /\ commitCh # <<>>
    /\ commitCh' = Tail(commitCh)
    /\ sealPc' = IF Head(commitCh) = proposedBlockHash THEN "idle"
                 ELSE "waiting"
    /\ UNCHANGED <<engineVars, query, broadcaster, proposedBlockHash,
                   enqueued, commit, verify, gossipVars,
                   sigCheck, accessor, pending, rpcVars>>

SealAbandon ==
    /\ sealPc = "waiting"
    /\ sealPc' = "idle"
    /\ UNCHANGED <<engineVars, query, broadcaster, proposedBlockHash,
                   commitCh, enqueued, commit, verify, gossipVars,
                   sigCheck, accessor, pending, rpcVars>>

\* ----------------------------------------------------------------- gossip

\* sb.address, which both engines report as Address().
Address == 0
Peers == 1..NumPeers
Validators == {Address} \cup Peers
Payloads == 1..NumPayloads
\* The callers of Gossip and Broadcast.
Gossipers == {1, 2}
\* Who allocated a per-peer cache: the Gossip caller that found none.
CacheOwners == Gossipers

\* A message code the qbft protocol knows, and one it does not.
Codes == {"qbftCode", "otherCode"}
MessageCodes == {"qbftCode"}

\* istanbul.RLPHash: distinct payloads have distinct hashes.
RLPHash(payload) == <<"rlp", payload>>

\* The validator sets given to Broadcast: with and without the node itself.
ValSetOpts == {Validators, Peers, {Address}}

\* broadcaster.FindPeers: a handle for every target the transport reaches.
\* The last peer is not connected.
FindPeers(targets) == {a \in targets : a < NumPeers}

NoGossip == [pc |-> "idle", op |-> "Gossip", payload |-> 1,
             code |-> "otherCode", valSet |-> {}, ps |-> {}, todo |-> {},
             cur |-> 0,
             m |-> 0, skipped |-> {}, sentTo |-> {}, posted |-> 0]

\* Whether the peer's registered cache holds the hash.
Recorded(a, hash) ==
    /\ recentMessages[a] # 0
    /\ hash \in caches[a][recentMessages[a]]

\* Where a call goes once the peers in todo are left.
AfterPeer(op, todo) ==
    IF todo # {} THEN "loop"
    ELSE IF op = "Broadcast" THEN "post" ELSE "done"

\* A mutant of Targets: the node's own address is kept.
Targets_KeepSelf(valSet) == valSet

\* Lines 170-175: the validator set minus the node's own address.
Targets(valSet) == {a \in valSet : a # Address}

\* A mutant of MarkKnown: the hash is not added to the self-seen cache.
MarkKnown_Skip(hash) == knownMessages

\* Line 168: sb.knownMessages.Add(hash, true)
MarkKnown(hash) == knownMessages \cup {hash}

\* Lines 155 and 167-177: Broadcast calls Gossip, which marks the hash as
\* self-seen, computes the targets and resolves the peers.
Gossip_Begin(c, op, valSet, code, payload) ==
    /\ gossip[c].pc \in {"idle", "done"}
    /\ gossipLog.calls < MaxGossipCalls
    /\ knownMessages' = MarkKnown(RLPHash(payload))
    /\ LET targets == Targets(valSet)
           ps == IF broadcaster /\ targets # {} THEN FindPeers(targets)
                 ELSE {}
       IN gossip' = [gossip EXCEPT ![c] =
            [NoGossip EXCEPT !.pc = AfterPeer(op, ps), !.op = op,
                             !.payload = payload, !.code = code,
                             !.valSet = valSet, !.ps = ps, !.todo = ps]]
    /\ gossipLog' = [gossipLog EXCEPT
            !.calls = @ + 1,
            !.gossiped = @ \cup {payload},
            !.broadcasts[payload] = IF op = "Broadcast" THEN @ + 1 ELSE @]
    /\ UNCHANGED <<engineVars, query, broadcaster, commitVars, verify,
                   sigCheck, accessor, pending,
                   recentMessages, caches, sentCount, wire, injected,
                   forwarded, rpcVars>>

\* Lines 178-189: the peer's cache is looked up; the peer is skipped when
\* its cache holds the hash, and a cache is created when it has none.
Gossip_Check(c, a) ==
    /\ gossip[c].pc = "loop"
    /\ a \in gossip[c].todo
    /\ IF Recorded(a, RLPHash(gossip[c].payload))
       THEN gossip' = [gossip EXCEPT
                ![c].todo = @ \ {a},
                ![c].skipped = @ \cup {a},
                ![c].pc = AfterPeer(gossip[c].op, gossip[c].todo \ {a})]
       ELSE gossip' = [gossip EXCEPT
                ![c].cur = a,
                ![c].m = IF recentMessages[a] # 0 THEN recentMessages[a]
                         ELSE c,
                ![c].pc = "add"]
    /\ UNCHANGED <<engineVars, query, broadcaster, commitVars, verify,
                   sigCheck, accessor, pending,
                   knownMessages, recentMessages, caches, sentCount, wire,
                   injected, forwarded, gossipLog, rpcVars>>

\* A mutant of Outbound: the current protocol sends every code unchanged.
Outbound_PassThrough(code) ==
    IF IsQBFTConsensus
    THEN [fn |-> "SendQbftConsensus", code |-> code]
    ELSE [fn |-> "SendConsensus", code |-> "istanbulMsg"]

\* Lines 194-202: the send function and the outbound code.
Outbound(code) ==
    IF IsQBFTConsensus
    THEN [fn |-> "SendQbftConsensus",
          code |-> IF code \in MessageCodes THEN code ELSE "istanbulMsg"]
    ELSE [fn |-> "SendConsensus", code |-> "istanbulMsg"]

\* A mutant of Gossip_AddSend: the send is made by the caller itself, which
\* waits while an earlier send to the peer has not completed.
Gossip_AddSend_Awaited(c) ==
    /\ \A m \in Payloads : <<gossip[c].cur, m>> \notin pending
    /\ gossip[c].pc = "add"
    /\ LET a == gossip[c].cur
           m == gossip[c].m
           payload == gossip[c].payload
           out == Outbound(gossip[c].code)
       IN /\ caches' = [caches EXCEPT ![a][m] = @ \cup {RLPHash(payload)}]
          /\ recentMessages' = [recentMessages EXCEPT ![a] = m]
          /\ sentCount' = [sentCount EXCEPT ![a][payload] = @ + 1]
          /\ wire' = wire \cup {[peer |-> a, fn |-> out.fn,
                                 code |-> out.code, payload |-> payload,
                                 inCode |-> gossip[c].code,
                                 qbft |-> IsQBFTConsensus]}
          /\ pending' = pending \cup {<<a, payload>>}
          /\ gossip' = [gossip EXCEPT
                ![c].todo = @ \ {a},
                ![c].cur = 0,
                ![c].m = 0,
                ![c].sentTo = @ \cup {a},
                ![c].pc = AfterPeer(gossip[c].op, gossip[c].todo \ {a})]
    /\ UNCHANGED <<engineVars, query, broadcaster, commitVars, verify,
                   sigCheck, accessor,
                   knownMessages, injected, forwarded, gossipLog, rpcVars>>

\* Lines 191-202: the hash is added to the cache, the cache is registered
\* for the peer, and the send is dispatched.
Gossip_AddSend(c) ==
    /\ gossip[c].pc = "add"
    /\ LET a == gossip[c].cur
           m == gossip[c].m
           payload == gossip[c].payload
           out == Outbound(gossip[c].code)
       IN /\ caches' = [caches EXCEPT ![a][m] = @ \cup {RLPHash(payload)}]
          /\ recentMessages' = [recentMessages EXCEPT ![a] = m]
          /\ sentCount' = [sentCount EXCEPT ![a][payload] = @ + 1]
          /\ wire' = wire \cup {[peer |-> a, fn |-> out.fn,
                                 code |-> out.code, payload |-> payload,
                                 inCode |-> gossip[c].code,
                                 qbft |-> IsQBFTConsensus]}
          /\ pending' = pending \cup {<<a, payload>>}
          /\ gossip' = [gossip EXCEPT
                ![c].todo = @ \ {a},
                ![c].cur = 0,
                ![c].m = 0,
                ![c].sentTo = @ \cup {a},
                ![c].pc = AfterPeer(gossip[c].op, gossip[c].todo \ {a})]
    /\ UNCHANGED <<engineVars, query, broadcaster, commitVars, verify,
                   sigCheck, accessor,
                   knownMessages, injected, forwarded, gossipLog, rpcVars>>

\* Lines 157-162: Broadcast posts the payload to the local event stream.
Broadcast_Post(c) ==
    /\ gossip[c].pc = "post"
    /\ injected' = [injected EXCEPT ![gossip[c].payload] = @ + 1]
    /\ gossip' = [gossip EXCEPT ![c].posted = @ + 1, ![c].pc = "done"]
    /\ UNCHANGED <<engineVars, query, broadcaster, commitVars, verify,
                   sigCheck, accessor, pending,
                   knownMessages, recentMessages, caches, sentCount, wire,
                   forwarded, gossipLog, rpcVars>>

\* The goroutine of line 199 or 201 ends: the peer has taken the message.
SendCompletes(a, payload) ==
    /\ <<a, payload>> \in pending
    /\ pending' = pending \ {<<a, payload>>}
    /\ UNCHANGED <<engineVars, query, broadcaster, commitVars, verify,
                   gossipVars, sigCheck, accessor, rpcVars>>

\* The receive path: a payload already self-seen is dropped, any other is
\* marked self-seen and forwarded to the round-engine's event stream.
HandleMsg(payload) ==
    /\ gossipLog.deliveries < MaxDeliveries
    /\ LET hash == RLPHash(payload)
           fresh == hash \notin knownMessages
       IN /\ knownMessages' = knownMessages \cup {hash}
          /\ forwarded' = IF fresh
                          THEN [forwarded EXCEPT ![payload] = @ + 1]
                          ELSE forwarded
          /\ gossipLog' = [gossipLog EXCEPT
                !.deliveries = @ + 1,
                !.delivered[payload] = @ + 1,
                !.lateForward = @ \/ (fresh /\ payload \in gossipLog.gossiped)]
    /\ UNCHANGED <<engineVars, query, broadcaster, commitVars, verify,
                   sigCheck, accessor, pending,
                   recentMessages, caches, gossip, sentCount, wire,
                   injected, rpcVars>>

\* ---------------------------------------------------------------- signing

\* sb.privateKey: key k belongs to the validator with address k - 1.
privateKey == 1
Keys == 1..(NumPeers + 1)
Data == 1..NumData

\* crypto.PubkeyToAddress
PubkeyToAddress(key) == key - 1

\* crypto.Keccak256: the digest of the data, which is not the data.
Keccak256(data) == [hashed |-> TRUE, data |-> data]
\* The bytes of the data taken as a digest, unhashed.
Raw(data) == [hashed |-> FALSE, data |-> data]

\* crypto.Sign: an ECDSA signature binds the digest and the key.
CryptoSign(digest, key) == [digest |-> digest, key |-> key]

\* A mutant of Sign: the data is signed without being hashed.
Sign_Unhashed(data) == CryptoSign(Raw(data), privateKey)

\* Lines 278-281.
Sign(data) == CryptoSign(Keccak256(data), privateKey)

\* Lines 284-286.
SignWithoutHashing(data) == CryptoSign(Raw(data), privateKey)

\* Public-key recovery: the signer's address when the digest is the signed
\* one, else the address of a key nobody holds.
Ecrecover(digest, sig) ==
    IF sig.digest = digest THEN PubkeyToAddress(sig.key) ELSE NumPeers + 1

\* istanbul.GetSignatureAddress: hashes the data and recovers the signer.
GetSignatureAddress(data, sig) == Ecrecover(Keccak256(data), sig)

\* Lines 289-301.
CheckSignature(data, address, sig) ==
    IF GetSignatureAddress(data, sig) # address THEN "ErrInvalidSignature"
    ELSE "nil"

\* The addresses a caller may claim: the validators', and one nobody holds.
ClaimedAddresses == 0..(NumPeers + 1)

NoSigCheck == [called |-> FALSE, signer |-> "Sign", signed |-> 1,
               data |-> 1, address |-> 0, ret |-> "nil"]

\* A signature is made of `signed` and checked against `data` and `address`.
SignAndCheck(signer, signed, data, address) ==
    /\ LET sig == IF signer = "Sign" THEN Sign(signed)
                  ELSE SignWithoutHashing(signed)
       IN sigCheck' = [called |-> TRUE, signer |-> signer, signed |-> signed,
                       data |-> data, address |-> address,
                       ret |-> CheckSignature(data, address, sig)]
    /\ UNCHANGED <<engineVars, query, broadcaster, commitVars, verify,
                   gossipVars, accessor, pending, rpcVars>>

\* -------------------------------------------------------------- accessors

\* common.Address{}, the zero address.
ZeroAddress == -1

\* validator.NewSet(nil, sb.config.ProposerPolicy): no validators, and the
\* configured proposer policy.
EmptySet == [vals |-> {}, policy |-> policy]

\* What sb.snapshot answers when asked: an error, or a snapshot whose ValSet
\* carries the policy it was built with.
SnapshotOpts ==
    {[err |-> "ErrUnknownAncestor", ValSet |-> [vals |-> {}, policy |-> "none"]]}
    \cup {[err |-> "nil", ValSet |-> [vals |-> V, policy |-> "snapshot"]] :
            V \in {Validators, Peers}}

\* The proposals given to the accessors: blocks, and values of another type
\* that report a number and a hash.
AccessorProposals == {[isBlock |-> b, hash |-> h] : b \in BOOLEAN, h \in Blocks}

\* A mutant of getValidators: the ValSet of the failed snapshot is returned.
getValidators_NoFallback(number, hash, snap) ==
    [asked |-> <<number, hash>>, ret |-> snap.ValSet]

\* Lines 325-331.
getValidators(number, hash, snap) ==
    [asked |-> <<number, hash>>,
     ret |-> IF snap.err # "nil" THEN EmptySet ELSE snap.ValSet]

\* Lines 148-150: Backend.Validators.
ValidatorsOf(proposal, snap) ==
    getValidators(NumberOf(proposal.hash), proposal.hash, snap)

\* Lines 318-323.
ParentValidators(proposal, snap) ==
    IF proposal.isBlock
    THEN getValidators(NumberOf(proposal.hash) - 1, ParentOf(proposal.hash),
                       snap)
    ELSE [asked |-> <<>>, ret |-> EmptySet]

\* What sb.Author answers for a header: an error, or the proposer.
AuthorOpts ==
    {[err |-> "ErrInvalidSignature", addr |-> ZeroAddress]}
    \cup {[err |-> "nil", addr |-> a] : a \in Validators}

NilProposal == [isNil |-> TRUE, Number |-> 0]

\* Lines 333-348: sb.currentBlock() is the block at the chain head.
LastProposal(author) ==
    IF currentHeader > 0
    THEN IF author.err # "nil"
         THEN [proposal |-> NilProposal, proposer |-> ZeroAddress]
         ELSE [proposal |-> Header(currentHeader), proposer |-> author.addr]
    ELSE [proposal |-> Header(currentHeader), proposer |-> ZeroAddress]

NoAccessor == [op |-> "none", proposal |-> NotABlock,
               snap |-> [err |-> "nil",
                         ValSet |-> [vals |-> {}, policy |-> "none"]],
               author |-> [err |-> "nil", addr |-> ZeroAddress],
               head |-> 0, policy |-> "default", asked |-> <<>>,
               set |-> [vals |-> {}, policy |-> "none"],
               last |-> [proposal |-> NilProposal, proposer |-> ZeroAddress]]

\* A call of one of the validator accessors; they run once the chain is
\* attached.
CallValidators(op, proposal, number, hash, snap) ==
    /\ chain = "attached"
    /\ LET out == CASE op = "Validators" -> ValidatorsOf(proposal, snap)
                    [] op = "ParentValidators" ->
                            ParentValidators(proposal, snap)
                    [] OTHER -> getValidators(number, hash, snap)
       IN accessor' = [NoAccessor EXCEPT
                          !.op = op, !.proposal = proposal, !.snap = snap,
                          !.head = currentHeader, !.policy = policy,
                          !.asked = IF op = "getValidators"
                                    THEN <<number, hash>> ELSE out.asked,
                          !.set = out.ret]
    /\ UNCHANGED <<engineVars, query, broadcaster, commitVars, verify,
                   gossipVars, sigCheck, pending, rpcVars>>

CallLastProposal(author) ==
    /\ chain = "attached"
    /\ accessor' = [NoAccessor EXCEPT
                       !.op = "LastProposal", !.author = author,
                       !.head = currentHeader, !.policy = policy,
                       !.last = LastProposal(author)]
    /\ UNCHANGED <<engineVars, query, broadcaster, commitVars, verify,
                   gossipVars, sigCheck, pending, rpcVars>>

\* ------------------------------------------------------------- rpc server

Codecs == 1..NumCodecs

\* NewServer: run is 1, no codec is tracked, isMultitenant is false.
NewServer == [run |-> 1, codecs |-> {}, isMultitenant |-> FALSE,
              stopPc |-> "idle", stops |-> 0, returned |-> FALSE]

\* A connection not yet handed to ServeCodec: open, nothing served.
NoServe == [open |-> TRUE, pc |-> "idle", served |-> FALSE,
            afterStop |-> FALSE]

\* Lines 95-100: the run check of ServeCodec; on a stopped server the
\* deferred codec.close() runs and the call returns.
Serve_Check(k) ==
    /\ codec[k].pc = "idle"
    /\ IF rpc.run = 0
       THEN codec' = [codec EXCEPT ![k].pc = "done", ![k].open = FALSE,
                                   ![k].afterStop = rpc.returned]
       ELSE codec' = [codec EXCEPT ![k].pc = "add",
                                   ![k].afterStop = rpc.returned]
    /\ UNCHANGED <<engineVars, query, broadcaster, commitVars, verify,
                   gossipVars, sigCheck, accessor, pending, rpc, secCtx>>

\* Lines 103-106: the codec is added to the set and a client is started on
\* it.
Serve_Add(k) ==
    /\ codec[k].pc = "add"
    /\ rpc' = [rpc EXCEPT !.codecs = @ \cup {k}]
    /\ codec' = [codec EXCEPT ![k].pc = "wait", ![k].served = TRUE]
    /\ UNCHANGED <<engineVars, query, broadcaster, commitVars, verify,
                   gossipVars, sigCheck, accessor, pending, secCtx>>

\* Lines 107-109: <-codec.closed() returns once the codec is closed; the
\* client is closed, the codec removed from the set and closed.
Serve_Return(k) ==
    /\ codec[k].pc = "wait"
    /\ ~codec[k].open
    /\ rpc' = [rpc EXCEPT !.codecs = @ \ {k}]
    /\ codec' = [codec EXCEPT ![k].pc = "done"]
    /\ UNCHANGED <<engineVars, query, broadcaster, commitVars, verify,
                   gossipVars, sigCheck, accessor, pending, secCtx>>

\* The remote end closes its connection.
ClientCloses(k) ==
    /\ codec[k].pc = "wait"
    /\ codec[k].open
    /\ codec' = [codec EXCEPT ![k].open = FALSE]
    /\ UNCHANGED <<engineVars, query, broadcaster, commitVars, verify,
                   gossipVars, sigCheck, accessor, pending, rpc, secCtx>>

\* Line 142: atomic.CompareAndSwapInt32(&s.run, 1, 0); a Stop that finds
\* run at 0 returns.
Stop_CAS ==
    /\ rpc.stopPc = "idle"
    /\ rpc.stops < MaxStops
    /\ IF rpc.run = 1
       THEN rpc' = [rpc EXCEPT !.run = 0, !.stopPc = "closing",
                               !.stops = @ + 1]
       ELSE rpc' = [rpc EXCEPT !.stops = @ + 1]
    /\ UNCHANGED <<engineVars, query, broadcaster, commitVars, verify,
                   gossipVars, sigCheck, accessor, pending, codec, secCtx>>

\* Lines 144-148: every codec in the set is closed, and Stop returns.
Stop_CloseAll ==
    /\ rpc.stopPc = "closing"
    /\ codec' = [k \in Codecs |->
                    IF k \in rpc.codecs THEN [codec[k] EXCEPT !.open = FALSE]
                    ELSE codec[k]]
    /\ rpc' = [rpc EXCEPT !.stopPc = "idle", !.returned = TRUE]
    /\ UNCHANGED <<engineVars, query, broadcaster, commitVars, verify,
                   gossipVars, sigCheck, accessor, pending, secCtx>>

\* Line 185-187.
SupportsMultitenancy(b) ==
    /\ rpc' = [rpc EXCEPT !.isMultitenant = b]
    /\ UNCHANGED <<engineVars, query, broadcaster, commitVars, verify,
                   gossipVars, sigCheck, accessor, pending, codec, secCtx>>

\* ----------------------------------------------------- rpc authentication

\* What ExtractPSI answers: the identifier of the request, or the default
\* one and found = false.
PSIOpts ==
    {[found |-> FALSE, value |-> "default"]}
    \cup {[found |-> TRUE, value |-> v] : v \in {"psi1", "psi2"}}

\* What authenticationManager.IsEnabled answers.
IsEnabledOpts ==
    {[err |-> "nil", value |-> v] : v \in BOOLEAN}
    \cup {[err |-> "plugin failure", value |-> FALSE]}

\* What extractToken answers.
TokenOpts ==
    {[has |-> FALSE, value |-> "none"]}
    \cup {[has |-> TRUE, value |-> v] : v \in {"token1", "token2"}}

\* What authenticationManager.Authenticate answers for a token.
AuthenticateOpts ==
    {[err |-> "nil", authToken |-> "preauthenticated"],
     [err |-> "invalid token", authToken |-> "none"]}

\* context.Background(): no value under any key.
Background == [requestPSI |-> "unset", isMultitenant |-> "unset",
               authError |-> "unset", token |-> "unset", psi |-> "unset"]

\* A mutant of authenticateHttpRequest: a request without a token gets no
\* authentication error.
authenticateHttpRequest_TokenOptional(psi, enabled, token, auth) ==
    LET found == IF psi.found
                 THEN [Background EXCEPT !.requestPSI = psi.value]
                 ELSE Background
        base == [found EXCEPT
                    !.isMultitenant = IF rpc.isMultitenant THEN "true"
                                      ELSE "false"]
    IN IF enabled.err # "nil"
       THEN [base EXCEPT !.authError = "internal error"]
       ELSE IF ~enabled.value
       THEN [base EXCEPT !.psi = psi.value]
       ELSE IF token.has
       THEN IF auth.err # "nil"
            THEN [base EXCEPT !.authError = auth.err]
            ELSE [base EXCEPT !.token = auth.authToken]
       ELSE base

\* Lines 154-183: the security context the deferred cfg.Configure receives.
authenticateHttpRequest(psi, enabled, token, auth) ==
    LET found == IF psi.found
                 THEN [Background EXCEPT !.requestPSI = psi.value]
                 ELSE Background
        base == [found EXCEPT
                    !.isMultitenant = IF rpc.isMultitenant THEN "true"
                                      ELSE "false"]
    IN IF enabled.err # "nil"
       THEN [base EXCEPT !.authError = "internal error"]
       ELSE IF ~enabled.value
       THEN [base EXCEPT !.psi = psi.value]
       ELSE IF token.has
       THEN IF auth.err # "nil"
            THEN [base EXCEPT !.authError = auth.err]
            ELSE [base EXCEPT !.token = auth.authToken]
       ELSE [base EXCEPT !.authError = "missing access token"]

NoRequest == [called |-> FALSE,
              psi |-> [found |-> FALSE, value |-> "default"],
              enabled |-> [err |-> "nil", value |-> FALSE],
              token |-> [has |-> FALSE, value |-> "none"],
              auth |-> [err |-> "nil", authToken |-> "preauthenticated"],
              isMultitenant |-> FALSE, configured |-> <<>>]

\* One HTTP request is authenticated: the contexts handed to cfg.Configure,
\* in order.
AuthenticateRequest(psi, enabled, token, auth) ==
    /\ secCtx' = [called |-> TRUE, psi |-> psi, enabled |-> enabled,
                  token |-> token, auth |-> auth,
                  isMultitenant |-> rpc.isMultitenant,
                  configured |->
                      <<authenticateHttpRequest(psi, enabled, token, auth)>>]
    /\ UNCHANGED <<engineVars, query, broadcaster, commitVars, verify,
                   gossipVars, sigCheck, accessor, pending, rpc, codec>>

\* ---------------------------------------------------------- specification

\* The state New returns, for every configuration.
Init ==
    /\ qbftBlock \in QbftBlockOpts
    /\ chain = "nil"
    /\ currentHeader = 0
    /\ qbftConsensusEnabled = FALSE
    /\ core = NoCore
    /\ coreStarted = FALSE
    /\ coreMu = "free"
    /\ policy = "default"
    /\ sqPc = "idle"
    /\ sqErr = "none"
    /\ query = [asked |-> FALSE, header |-> NilHeader, engine |-> "ibft",
                enabled |-> FALSE, chain |-> "nil", head |-> 0]
    /\ hasBadBlock = NoPredicate
    /\ broadcaster = FALSE
    /\ proposedBlockHash = 0
    /\ commitCh = <<>>
    /\ sealPc = "idle"
    /\ enqueued = {}
    /\ commit = [c \in Committers |-> NoCommit]
    /\ verify = NoVerify
    /\ knownMessages = {}
    /\ recentMessages = [a \in Validators |-> 0]
    /\ caches = [a \in Validators |-> [o \in CacheOwners |-> {}]]
    /\ gossip = [c \in Gossipers |-> NoGossip]
    /\ sentCount = [a \in Validators |-> [m \in Payloads |-> 0]]
    /\ wire = {}
    /\ injected = [m \in Payloads |-> 0]
    /\ forwarded = [m \in Payloads |-> 0]
    /\ gossipLog = [calls |-> 0, deliveries |-> 0,
                    broadcasts |-> [m \in Payloads |-> 0],
                    delivered |-> [m \in Payloads |-> 0],
                    gossiped |-> {}, lateForward |-> FALSE]
    /\ sigCheck = NoSigCheck
    /\ accessor = NoAccessor
    /\ pending = {}
    /\ rpc = NewServer
    /\ codec = [k \in Codecs |-> NoServe]
    /\ secCtx = NoRequest

DoStart == \E ok \in BOOLEAN, pred \in PredicateOpts : Start(ok, pred)
DoStop == \E ok \in BOOLEAN : Stop(ok)
DoSQ_Stop == \E ok \in BOOLEAN : SQ_Stop(ok)
DoSQ_StartCore == \E ok \in BOOLEAN : SQ_StartCore(ok)
DoQuery == \E header \in HeaderOpts : Query(header)

Next ==
    \/ DoStart
    \/ DoStop
    \/ NewHead
    \/ DoSQ_Stop
    \/ SQ_Install
    \/ DoSQ_StartCore
    \/ SQ_MarkStarted
    \/ SQ_Enable
    \/ DoQuery

Spec == Init /\ [][Next]_vars

\* Proposal verification, with the engine started and the chain advancing.
DoVerify ==
    \E proposal \in Proposals, snapErr \in SnapshotErrs,
       engineRes \in EngineVerifyResults :
        Verify(proposal, snapErr, engineRes)

NextVerify ==
    \/ DoStart
    \/ NewHead
    \/ DoVerify

SpecVerify == Init /\ [][NextVerify]_vars

\* The commit pipeline and the local seal attempt.
DoCommit_Begin ==
    \E c \in Committers, proposal \in Proposals, headerOk \in BOOLEAN :
        Commit_Begin(c, proposal, headerOk)
DoCommit_Compare == \E c \in Committers : Commit_Compare(c)
DoCommit_Send == \E c \in Committers : Commit_Send(c)
DoSealBegin == \E h \in Blocks : SealBegin(h)

NextCommit ==
    \/ SetBroadcaster
    \/ DoCommit_Begin
    \/ DoCommit_Compare
    \/ DoCommit_Send
    \/ DoSealBegin
    \/ SealReceive
    \/ SealAbandon

\* Commit consults no configuration but the engine's: one fork height.
InitCommit == Init /\ qbftBlock = ForkHeight

SpecCommit == InitCommit /\ [][NextCommit]_vars

\* The commit pipeline with its scheduling: a Commit call that can take a
\* step is run, and a sender waiting on the channel is served when room is
\* made again and again (the runtime queues waiting senders in order); the
\* sealing caller and the callers of Commit are free to do nothing.
SpecCommitLive ==
    /\ InitCommit
    /\ [][NextCommit]_vars
    /\ \A c \in Committers :
        /\ WF_vars(Commit_Compare(c))
        /\ SF_vars(Commit_Send(c))

\* Gossip, Broadcast and the receive path, with the broadcaster attached
\* and the engine started.
DoGossip_Begin ==
    \E c \in Gossipers, op \in {"Gossip", "Broadcast"}, valSet \in ValSetOpts,
       payload \in Payloads :
        Gossip_Begin(c, op, valSet, "otherCode", payload)
DoGossip_Check == \E c \in Gossipers, a \in Validators : Gossip_Check(c, a)
DoGossip_AddSend == \E c \in Gossipers : Gossip_AddSend(c)
DoBroadcast_Post == \E c \in Gossipers : Broadcast_Post(c)
DoHandleMsg == \E payload \in Payloads : HandleMsg(payload)

NextGossip ==
    \/ SetBroadcaster
    \/ DoGossip_Begin
    \/ DoGossip_Check
    \/ DoGossip_AddSend
    \/ DoBroadcast_Post

InitGossip == Init /\ qbftBlock = ForkHeight

SpecGossip == InitGossip /\ [][NextGossip]_vars

\* The self-seen cache: the node's own calls and the receive path.
NextDedup ==
    \/ DoGossip_Begin
    \/ DoBroadcast_Post
    \/ DoHandleMsg

SpecDedup == InitGossip /\ [][NextDedup]_vars

\* Signing and signature checks.
DoSignAndCheck ==
    \E signer \in {"Sign", "SignWithoutHashing"}, signed \in Data,
       data \in Data, address \in ClaimedAddresses :
        SignAndCheck(signer, signed, data, address)

NextSign == DoSignAndCheck

SpecSign == InitGossip /\ [][NextSign]_vars

\* The accessors, with the engine started and the chain advancing.
DoCallValidators ==
    \E op \in {"Validators", "ParentValidators", "getValidators"},
       proposal \in AccessorProposals, snap \in SnapshotOpts :
        CallValidators(op, proposal, NumberOf(proposal.hash), proposal.hash,
                       snap)
DoCallLastProposal == \E author \in AuthorOpts : CallLastProposal(author)

NextAccessors ==
    \/ DoStart
    \/ NewHead
    \/ DoCallValidators
    \/ DoCallLastProposal

SpecAccessors == Init /\ [][NextAccessors]_vars

\* Peer sends and their completion, with one caller making call after call.
\* A Gossip or Broadcast call that can take a step is run; nothing is
\* assumed of the peers: a send may never complete.
DoSendCompletes ==
    \E a \in Peers, payload \in Payloads : SendCompletes(a, payload)

GossipStep(c) ==
    \/ \E a \in Validators : Gossip_Check(c, a)
    \/ Gossip_AddSend(c)
    \/ Broadcast_Post(c)

DoGossip_BeginSend ==
    \E op \in {"Gossip", "Broadcast"}, payload \in Payloads :
        Gossip_Begin(1, op, Validators, "otherCode", payload)

NextSend ==
    \/ SetBroadcaster
    \/ DoGossip_BeginSend
    \/ DoGossip_Check
    \/ DoGossip_AddSend
    \/ DoBroadcast_Post
    \/ DoSendCompletes

SpecSend ==
    /\ InitGossip
    /\ [][NextSend]_vars
    /\ \A c \in Gossipers : WF_vars(GossipStep(c))

\* The outbound code, with the engine started and the chain advancing past
\* the fork height while one caller gossips.
DoGossip_BeginCode ==
    \E code \in Codes, payload \in Payloads :
        Gossip_Begin(1, "Gossip", Validators, code, payload)
DoStartCodes == Start(TRUE, NoPredicate)

NextCodes ==
    \/ DoStartCodes
    \/ NewHead
    \/ SetBroadcaster
    \/ DoGossip_BeginCode
    \/ DoGossip_Check
    \/ DoGossip_AddSend

SpecCodes == Init /\ [][NextCodes]_vars

\* The RPC server: connections served while the server is stopped.
DoServe_Check == \E k \in Codecs : Serve_Check(k)
DoServe_Add == \E k \in Codecs : Serve_Add(k)
DoServe_Return == \E k \in Codecs : Serve_Return(k)
DoClientCloses == \E k \in Codecs : ClientCloses(k)

NextRpc ==
    \/ DoServe_Check
    \/ DoServe_Add
    \/ DoServe_Return
    \/ DoClientCloses
    \/ Stop_CAS
    \/ Stop_CloseAll

SpecRpc == Init /\ [][NextRpc]_vars

\* HTTP requests authenticated by the RPC server.
DoAuthenticateRequest ==
    \E psi \in PSIOpts, enabled \in IsEnabledOpts, token \in TokenOpts,
       auth \in AuthenticateOpts :
        AuthenticateRequest(psi, enabled, token, auth)
DoSupportsMultitenancy == \E b \in BOOLEAN : SupportsMultitenancy(b)

NextAuth ==
    \/ DoAuthenticateRequest
    \/ DoSupportsMultitenancy

SpecAuth == Init /\ [][NextAuth]_vars

\* Verify and Commit of the proposals for the next height, with the engine
\* started and the chain advancing.
NextProposals ==
    {Block(h) : h \in {x \in 1..(2 * (MaxHeight + 1)) :
                          NumberOf(x) = currentHeader + 1}}

NilResult == <<0, "nil">>

DoStartDelegate == \E ok \in BOOLEAN : Start(ok, NoPredicate)
DoVerifyNextHeight ==
    \E proposal \in NextProposals, snapErr \in SnapshotErrs :
        Verify(proposal, snapErr, NilResult)
DoCommitNextHeight ==
    /\ chain = "attached"
    /\ \E proposal \in NextProposals, headerOk \in BOOLEAN :
        Commit_Begin(1, proposal, headerOk)
DoCommitNextCompare == Commit_Compare(1)

NextDelegate ==
    \/ DoStartDelegate
    \/ NewHead
    \/ DoVerifyNextHeight
    \/ DoCommitNextHeight
    \/ DoCommitNextCompare

SpecDelegate == Init /\ [][NextDelegate]_vars

\* ------------------------------------------------------------------ claims

\* The selection rule as documented: the engine for a header at height n
\* when the override flag is not set.
SelectionRule(n) ==
    IF qbftBlock = QbftBlockUndefined THEN "ibft"
    ELSE IF qbftBlock = 0 THEN "qbft"
    ELSE IF n >= qbftBlock THEN "qbft"
    ELSE "ibft"

\* C1: with the override flag not set, every selector query answers what the
\* documented rule gives for the supplied header, or for the current chain
\* head when no header is supplied, in every adapter state.
C1_Claim ==
    (query.asked /\ ~query.enabled) =>
        query.engine = SelectionRule(IF query.header.isNil THEN query.head
                                     ELSE query.header.Number)

\* C2: once the override flag is set, every selector query answers the
\* Current engine, with or without a supplied header, whatever its height.
C2_Claim ==
    (query.asked /\ query.enabled) => query.engine = "qbft"

\* C3 as stated: in every reachable state, override flag set implies that a
\* Current-protocol engine instance is installed and has been started.
C3_Claim ==
    qbftConsensusEnabled =>
        (core.kind = "qbft" /\ core.state \in {"running", "stopped"})

\* C3 amended: the override flag is raised only by a step that finds the
\* fresh Current-protocol engine installed, started with success and the
\* adapter marked running; and whenever the flag is set the installed engine
\* instance is a Current-protocol one.
C3_Amended ==
    /\ [](qbftConsensusEnabled => core.kind = "qbft")
    /\ [][(~qbftConsensusEnabled /\ qbftConsensusEnabled') =>
            (/\ core'.kind = "qbft"
             /\ core'.state = "running"
             /\ coreStarted')]_vars

C3_Witness ==
    /\ qbftConsensusEnabled
    /\ sqPc = "idle"
    /\ sqErr = "nil"
    /\ core = [kind |-> "qbft", state |-> "running"]
    /\ coreStarted

\* C4: while StartQBFTConsensus runs, no state has a Current-protocol engine
\* installed and running while a selector query answers Legacy, nor a
\* Legacy engine installed and running while it answers Current.
C4_Claim ==
    (sqPc # "idle" /\ core.state = "running") =>
        /\ ~(core.kind = "qbft" /\ Engine = "ibft")
        /\ ~(core.kind = "ibft" /\ Engine = "qbft")

\* A Commit call that has returned nil.
CommitReturned(c) == commit[c].pc = "done" /\ commit[c].ret = "nil"

\* Two returned Commit calls for the same height with different hashes.
CommitRace(c1, c2) ==
    /\ c1 # c2
    /\ CommitReturned(c1)
    /\ CommitReturned(c2)
    /\ commit[c1].proposal.hash # commit[c2].proposal.hash
    /\ NumberOf(commit[c1].proposal.hash) = NumberOf(commit[c2].proposal.hash)

TookLocalSeal(c) == commit[c].path = "local" /\ commit[c].put
TookForeignCommit(c) == commit[c].path = "foreign" /\ commit[c].enq

\* C5 as stated: of two Commit calls for the same height with different
\* hashes, exactly one follows the local-seal path and the other the
\* foreign-commit path.
C5_Claim ==
    \A c1, c2 \in Committers :
        CommitRace(c1, c2) =>
            \/ TookLocalSeal(c1) /\ TookForeignCommit(c2)
            \/ TookLocalSeal(c2) /\ TookForeignCommit(c1)

\* C5 amended: every Commit that returns nil follows exactly one path: the
\* local-seal path (block placed on the rendezvous channel, nothing
\* enqueued) exactly when its hash equals the PendingProposal it read, else
\* the foreign-commit path (nothing placed on the channel, the block
\* enqueued exactly when a broadcaster is attached); of two calls with
\* different hashes that read the same PendingProposal, at most one follows
\* the local-seal path.
C5_Amended ==
    /\ \A c \in Committers :
        CommitReturned(c) =>
            \/ /\ commit[c].path = "local"
               /\ commit[c].proposal.hash = commit[c].seen
               /\ commit[c].put
               /\ ~commit[c].enq
            \/ /\ commit[c].path = "foreign"
               /\ commit[c].proposal.hash # commit[c].seen
               /\ ~commit[c].put
               /\ commit[c].enq = commit[c].bc
               /\ commit[c].enq => commit[c].proposal.hash \in enqueued
    /\ \A c1, c2 \in Committers :
        (CommitRace(c1, c2) /\ commit[c1].seen = commit[c2].seen) =>
            ~(commit[c1].path = "local" /\ commit[c2].path = "local")

C5_Witness ==
    \E c1, c2 \in Committers :
        /\ CommitRace(c1, c2)
        /\ TookLocalSeal(c1)
        /\ TookForeignCommit(c2)
        /\ commit[c1].seen = commit[c2].seen

\* C10: Verify applies its checks in order with early exit: a non-block
\* proposal fails with the invalid-proposal error; else a block the
\* predicate marks bad fails with the blacklisted error, no snapshot asked
\* and no engine consulted (without a predicate no block is bad); else a
\* snapshot failure for (height-1, parentHash) is returned unchanged, no
\* engine consulted; else the engine's (retryDelay, error) is returned.
C10_VerifyOrder ==
    verify.called =>
        LET p == verify.proposal
            bad == ~verify.pred.isNil /\ p.hash \in verify.pred.bad
            key == <<NumberOf(p.hash) - 1, ParentOf(p.hash)>>
        IN /\ ~p.isBlock =>
                /\ verify.ret = <<0, "ErrInvalidProposal">>
                /\ verify.snapshotAsked = <<>>
                /\ verify.engineAsked = "none"
           /\ (p.isBlock /\ bad) =>
                /\ verify.ret = <<0, "ErrBlacklistedHash">>
                /\ verify.snapshotAsked = <<>>
                /\ verify.engineAsked = "none"
           /\ (p.isBlock /\ verify.pred.isNil) =>
                verify.ret[2] # "ErrBlacklistedHash"
           /\ (p.isBlock /\ ~bad /\ verify.snapErr # "nil") =>
                /\ verify.ret = <<0, verify.snapErr>>
                /\ verify.snapshotAsked = key
                /\ verify.engineAsked = "none"
           /\ (p.isBlock /\ ~bad /\ verify.snapErr = "nil") =>
                /\ verify.ret = verify.engineRes
                /\ verify.snapshotAsked = key
                /\ verify.engineAsked \in {"ibft", "qbft"}

C10_Witness ==
    /\ verify.called
    /\ verify.proposal.isBlock
    /\ verify.proposal.hash \in verify.pred.bad
    /\ verify.snapErr = "ErrUnknownAncestor"
    /\ verify.ret = <<0, "ErrBlacklistedHash">>

\* C6: Broadcast never sends the payload to the node's own address, also
\* when the node is a member of the validator set, and posts the payload to
\* the local event stream exactly once per Broadcast call.
C6_NoSelfGossip ==
    /\ \A m \in Payloads : sentCount[Address][m] = 0
    /\ \A w \in wire : w.peer # Address
    /\ \A c \in Gossipers : Address \notin gossip[c].sentTo
    /\ \A c \in Gossipers :
        gossip[c].pc = "done" =>
            gossip[c].posted = IF gossip[c].op = "Broadcast" THEN 1 ELSE 0
    /\ \A m \in Payloads :
        injected[m] + Cardinality({c \in Gossipers :
                                      /\ gossip[c].op = "Broadcast"
                                      /\ gossip[c].payload = m
                                      /\ gossip[c].pc \in {"loop", "add", "post"}})
            = gossipLog.broadcasts[m]

C6_Witness ==
    \E c \in Gossipers :
        /\ gossip[c].pc = "done"
        /\ gossip[c].op = "Broadcast"
        /\ Address \in gossip[c].valSet
        /\ gossip[c].sentTo # {}
        /\ gossip[c].posted = 1

\* C7: Gossip sends a payload exactly to the resolved peers not already
\* recorded as having seen its hash, sends nothing to a peer already
\* recorded, and after the call every resolved peer is recorded.
C7_Claim ==
    /\ \A a \in Validators, m \in Payloads : sentCount[a][m] <= 1
    /\ \A c \in Gossipers :
        gossip[c].pc = "done" =>
            /\ gossip[c].sentTo = gossip[c].ps \ gossip[c].skipped
            /\ \A a \in gossip[c].ps : Recorded(a, RLPHash(gossip[c].payload))

\* C8 as stated: across deliveries and the node's own Broadcast calls, a
\* payload is forwarded to the round-engine's event stream at most once.
C8_Claim ==
    \A m \in Payloads : injected[m] + forwarded[m] <= 1

\* C8 amended: the receive path does not forward a payload whose hash is
\* already self-seen, whether an earlier delivery or the node's own Gossip
\* or Broadcast marked it: it forwards a payload at most once, and not at
\* all once the node has gossiped it.
C8_Amended ==
    /\ \A m \in Payloads : forwarded[m] <= 1
    /\ ~gossipLog.lateForward

C8_Witness ==
    \E m \in Payloads :
        /\ gossipLog.delivered[m] >= 2
        /\ forwarded[m] = 1

\* C9: a signature made by Sign over some data checks against the same
\* data with nil for the node's own address, and with ErrInvalidSignature
\* for any other address.
C9_RoundTrip ==
    (sigCheck.called /\ sigCheck.signer = "Sign"
        /\ sigCheck.signed = sigCheck.data) =>
        sigCheck.ret = IF sigCheck.address = Address THEN "nil"
                       ELSE "ErrInvalidSignature"

C9_Witness ==
    /\ sigCheck.called
    /\ sigCheck.signer = "Sign"
    /\ sigCheck.signed = sigCheck.data
    /\ sigCheck.address = Address
    /\ sigCheck.ret = "nil"

\* A step in which StartQBFTConsensus returns an error: sb.Stop() failed
\* (line 400) or sb.core.Start() failed (line 412).
SwitchoverFails ==
    /\ sqErr' \in {"stop", "start"}
    /\ (sqErr' # sqErr \/ sqPc' # sqPc)

\* C11: when a step of StartQBFTConsensus fails, it returns that error, the
\* override flag is not raised, and the adapter is left without a running
\* engine and not marked running.
C11_Claim ==
    [][SwitchoverFails =>
        /\ qbftConsensusEnabled' = qbftConsensusEnabled
        /\ ~coreStarted'
        /\ core'.state # "running"]_vars

\* C12: LastProposal returns the current chain head as the proposal with its
\* proposer; when proposer recovery fails the address is the zero address
\* and the proposal is still the chain head; the proposer of the genesis
\* head is the zero address.
C12_Claim ==
    accessor.op = "LastProposal" =>
        /\ accessor.last.proposal = Header(accessor.head)
        /\ accessor.last.proposer =
              IF accessor.head = 0 \/ accessor.author.err # "nil"
              THEN ZeroAddress ELSE accessor.author.addr

\* The empty validator set carrying the policy configured at the call.
EmptyWithPolicy == [vals |-> {}, policy |-> accessor.policy]

\* What a validator accessor returns for the snapshot it was answered.
SnapshotOrEmpty ==
    IF accessor.snap.err # "nil" THEN EmptyWithPolicy
    ELSE accessor.snap.ValSet

IsValidatorAccessor ==
    accessor.op \in {"Validators", "ParentValidators", "getValidators"}

\* C13 as stated: every validator accessor returns the empty set with the
\* configured policy when the snapshot cannot be computed or the proposal is
\* not a block, and else the validator set of the computed snapshot.
C13_Claim ==
    IsValidatorAccessor =>
        accessor.set =
            IF accessor.snap.err # "nil"
               \/ (accessor.op # "getValidators" /\ ~accessor.proposal.isBlock)
            THEN EmptyWithPolicy
            ELSE accessor.snap.ValSet

\* C13 amended: the accessors never return an error. getValidators asks for
\* the snapshot of the (height, hash) it is given and Validators for that of
\* the proposal's own (number, hash), whatever the proposal's type: they
\* return the empty set with the configured policy when the snapshot cannot
\* be computed, else the snapshot's validator set. ParentValidators returns
\* the empty set with the configured policy for a proposal that is not a
\* block, without asking for a snapshot, and else answers as getValidators
\* for (number - 1, parent hash).
C13_Amended ==
    LET p == accessor.proposal
    IN /\ accessor.op \in {"Validators", "getValidators"} =>
            /\ accessor.asked = <<NumberOf(p.hash), p.hash>>
            /\ accessor.set = SnapshotOrEmpty
       /\ (accessor.op = "ParentValidators" /\ p.isBlock) =>
            /\ accessor.asked = <<NumberOf(p.hash) - 1, ParentOf(p.hash)>>
            /\ accessor.set = SnapshotOrEmpty
       /\ (accessor.op = "ParentValidators" /\ ~p.isBlock) =>
            /\ accessor.asked = <<>>
            /\ accessor.set = EmptyWithPolicy

C13_Witness ==
    /\ accessor.op = "ParentValidators"
    /\ accessor.proposal.isBlock
    /\ accessor.snap.err # "nil"
    /\ accessor.policy = "byByte"
    /\ accessor.set = [vals |-> {}, policy |-> "byByte"]

\* C14: a send made while the active protocol is Current carries the code
\* unchanged when it is a recognized Current-protocol code and the canonical
\* consensus-message code otherwise; a send made while it is Legacy carries
\* the canonical code; the payload sent is the payload given.
C14_CodeTranslation ==
    \A w \in wire :
        /\ w.qbft =>
            /\ w.fn = "SendQbftConsensus"
            /\ w.code = IF w.inCode \in MessageCodes THEN w.inCode
                        ELSE "istanbulMsg"
        /\ ~w.qbft =>
            /\ w.fn = "SendConsensus"
            /\ w.code = "istanbulMsg"
        /\ w.payload \in gossipLog.gossiped

C14_Witness ==
    /\ \E w \in wire : w.qbft /\ w.inCode = "otherCode"
                        /\ w.code = "istanbulMsg"
    /\ \E w \in wire : ~w.qbft /\ w.inCode = "qbftCode"
                        /\ w.code = "istanbulMsg"

\* C15: the override flag is unset after construction, no operation clears
\* it once set, and every headerless selector query that reads the flag set
\* answers the Current engine, whatever the chain head.
C15_Monotonic ==
    /\ ~qbftConsensusEnabled
    /\ [][qbftConsensusEnabled => qbftConsensusEnabled']_vars
    /\ []((query.asked /\ query.header.isNil /\ query.enabled) =>
            query.engine = "qbft")

C15_Witness ==
    /\ qbftConsensusEnabled
    /\ coreStarted = FALSE
    /\ core.state = "stopped"
    /\ query.asked
    /\ query.header.isNil
    /\ query.enabled
    /\ query.head < qbftBlock
    /\ query.engine = "qbft"

\* C16: every Commit call that has passed CommitHeader returns, on the
\* local-seal and on the foreign-commit path, whether or not the sealing
\* caller still receives from the rendezvous channel.
C16_Claim ==
    \A c \in Committers :
        (commit[c].pc \in {"compare", "send"}) ~> (commit[c].pc = "done")

\* A Commit call that has returned an error.
CommitFailed(c) ==
    commit[c].pc = "done" /\ commit[c].ret \in {"ErrInvalidProposal",
                                                "ErrCommitHeader"}

\* C17: a Commit that fails (the proposal is not a block, or CommitHeader
\* returns an error) returns the error, has not cleared the proposer-policy
\* registry, and places nothing on the rendezvous channel nor in the import
\* queue; a Commit whose CommitHeader succeeds has cleared the registry
\* exactly once when the completion path is chosen, and returns nil.
C17_CommitEffect ==
    /\ [](\A c \in Committers :
            /\ CommitFailed(c) =>
                /\ commit[c].ret = IF commit[c].proposal.isBlock
                                   THEN "ErrCommitHeader"
                                   ELSE "ErrInvalidProposal"
                /\ commit[c].cleared = 0
                /\ commit[c].path = "none"
                /\ ~commit[c].put
                /\ ~commit[c].enq
            /\ commit[c].pc \in {"compare", "send"} =>
                /\ commit[c].proposal.isBlock
                /\ commit[c].cleared = 1
            /\ (commit[c].pc = "done" /\ ~CommitFailed(c)) =>
                /\ commit[c].cleared = 1
                /\ commit[c].path \in {"local", "foreign"}
                /\ commit[c].ret = "nil")
    /\ [][\A c \in Committers :
            (commit'[c] # commit[c] /\ CommitFailed(c)') =>
                /\ commitCh' = commitCh
                /\ enqueued' = enqueued]_vars

C17_Witness ==
    \E c1, c2 \in Committers :
        /\ CommitFailed(c1)
        /\ commit[c1].ret = "ErrCommitHeader"
        /\ commit[c1].cleared = 0
        /\ CommitReturned(c2)
        /\ commit[c2].cleared = 1
        /\ commit[c2].put
        /\ broadcaster

\* A Gossip or Broadcast call that has begun and not returned.
GossipRunning(c) == gossip[c].pc \in {"loop", "add", "post"}

\* C18: every Gossip and Broadcast call returns, having dispatched its sends
\* and made its local post, whether or not any peer send ever completes.
C18_FireAndForget ==
    \A c \in Gossipers : GossipRunning(c) ~> (gossip[c].pc = "done")

C18_Witness ==
    \E c \in Gossipers :
        /\ gossip[c].pc = "done"
        /\ gossip[c].op = "Broadcast"
        /\ gossip[c].posted = 1
        /\ gossip[c].sentTo # {}
        /\ \A a \in gossip[c].sentTo : <<a, 1>> \in pending
        /\ gossip[c].payload = 2

\* C19: StartQBFTConsensus holds the engine-state lock from the stop of the
\* old engine to the raising of the flag, and the engine instance it
\* replaces is never one that is running.
C19_Claim ==
    /\ [](sqPc # "idle" => coreMu = "sq")
    /\ [][(sqPc = "stopped" /\ sqPc' = "installed") =>
            (core.state # "running" /\ ~coreStarted)]_vars

\* C20: a block is placed on the rendezvous channel only for the
\* PendingProposal of that moment: the comparison with PendingProposal and
\* the hand-off are one step with respect to the sealing caller.
C20_Claim ==
    [][\A c \in Committers :
        (commit[c].pc = "send" /\ commit'[c].put) =>
            /\ commit[c].proposal.hash = proposedBlockHash
            /\ commit[c].seen = proposedBlockHash]_vars

\* C21: once Stop has returned no codec is open and served; a codec is
\* closed when its ServeCodec has returned; a ServeCodec that starts after
\* Stop has returned serves nothing.
C21_Claim ==
    \A k \in Codecs :
        /\ rpc.returned => ~(codec[k].open /\ codec[k].pc = "wait")
        /\ codec[k].pc = "done" => ~codec[k].open
        /\ codec[k].afterStop => ~codec[k].served

\* C22: authenticateHttpRequest hands exactly one security context to
\* Configure. When IsEnabled fails it carries an authentication error and
\* no token; when authentication is enabled it carries the authenticated
\* token exactly when a token was present and Authenticate succeeded, and
\* else an authentication error (the missing token, or Authenticate's
\* error); the user-provided private-state identifier is the effective one
\* exactly when authentication is disabled.
C22_Authenticated ==
    secCtx.called =>
        /\ Len(secCtx.configured) = 1
        /\ LET ctx == secCtx.configured[1]
               failed == secCtx.enabled.err # "nil"
               enabled == ~failed /\ secCtx.enabled.value
               disabled == ~failed /\ ~secCtx.enabled.value
               authenticated == secCtx.token.has /\ secCtx.auth.err = "nil"
           IN /\ failed =>
                    /\ ctx.authError = "internal error"
                    /\ ctx.token = "unset"
              /\ (enabled /\ authenticated) =>
                    /\ ctx.token = secCtx.auth.authToken
                    /\ ctx.authError = "unset"
              /\ (enabled /\ ~authenticated) =>
                    /\ ctx.token = "unset"
                    /\ ctx.authError = IF secCtx.token.has
                                       THEN secCtx.auth.err
                                       ELSE "missing access token"
              /\ disabled =>
                    /\ ctx.psi = secCtx.psi.value
                    /\ ctx.token = "unset"
                    /\ ctx.authError = "unset"
              /\ ~disabled => ctx.psi = "unset"
              /\ ctx.isMultitenant = IF secCtx.isMultitenant THEN "true"
                                     ELSE "false"
              /\ ctx.requestPSI = IF secCtx.psi.found THEN secCtx.psi.value
                                  ELSE "unset"

C22_Witness ==
    /\ secCtx.called
    /\ secCtx.enabled = [err |-> "nil", value |-> TRUE]
    /\ ~secCtx.token.has
    /\ secCtx.psi.found
    /\ secCtx.isMultitenant
    /\ secCtx.configured[1].authError = "missing access token"
    /\ secCtx.configured[1].psi = "unset"

\* C23: Verify and Commit delegate to the engine the selection rule gives
\* for the proposal's own header, whatever the height of the chain head at
\* the time of the call.
C23_Claim ==
    /\ (verify.called /\ verify.engineAsked # "none") =>
           verify.engineAsked = SelectionRule(NumberOf(verify.proposal.hash))
    /\ \A c \in Committers :
           commit[c].engine # "none" =>
               commit[c].engine =
                   SelectionRule(NumberOf(commit[c].proposal.hash))

\* C24: under overlapping Gossip and Broadcast calls, and with no cache
\* eviction, a peer is sent a payload at most once in total, and a payload
\* recorded as sent to a peer stays recorded in the peer's registered cache.
C24_Claim ==
    \A a \in Validators, m \in Payloads :
        /\ sentCount[a][m] <= 1
        /\ sentCount[a][m] >= 1 => Recorded(a, RLPHash(m))

====
